---- MODULE Spec2Model ----
(***************************************************************************)
(* A model of coms.qa.core: the blocking and the non-blocking HTTP client  *)
(* (http_client.py), the RabbitMQ wrapper (rabbitmq_client.py) and the     *)
(* serialisation mixin (model.py).                                         *)
(*                                                                         *)
(* Conventions.  An Optional value is a sequence: <<>> is None, <<v>> is   *)
(* the value v.  Formatted text (a URL, a log tag) is the sequence of the  *)
(* pieces the code joins, so the empty string is <<>>.  A header mapping   *)
(* is a function from header names to values.                              *)
(***************************************************************************)
EXTENDS Integers, Sequences, FiniteSets, TLC

VARIABLES
    host, port, scheme,   \* per client: HttpClient._host, _port, _scheme
    headers,              \* per client: HttpClient._headers
    call,                 \* per caller: the frame of its request() call
    sessions,             \* the aiohttp sessions, by id
    nCalls, nSets,        \* calls issued, headers replaced (bounded)
    rabbitmq,             \* RabbitMQClient._rabbitmq: the connection
    channels,             \* the channels of the connection, by id
    queues,               \* the broker: per queue, the messages ready
    mq,                   \* the frame of the RabbitMQClient call in progress
    nOps,                 \* RabbitMQClient calls made (bounded)
    obj,                  \* what super().to_dict() gave Model.to_dict
    result                \* what Model.to_dict returned

httpVars == <<host, port, scheme, headers, call, sessions, nCalls, nSets>>
mqVars == <<rabbitmq, channels, queues, mq, nOps>>
modelVars == <<obj, result>>
vars == <<httpVars, mqVars, modelVars>>

---------------------------------------------------------------------------
(* Bounds *)
MaxCalls == 2
MaxSets == 1
MaxOps == 3
MaxNodes == 3

---------------------------------------------------------------------------
(* Values *)
None == <<>>
Some(v) == <<v>>

EmptyMapping == [n \in {} |-> ""]

DefaultHeaders ==
    ("Content-Type" :> "application/json") @@ ("Accept" :> "application/json")

CustomHeaders == ("X-Token" :> "t1")

OtherHeaders == ("Accept" :> "text/plain")

\* The mappings a caller assigns to client.headers.
HeaderMappings == {EmptyMapping, OtherHeaders}

\* The two client objects, a SyncHttpClient and an AsyncHttpClient.
Clients == {"sync", "async"}

\* The callers: two threads of control (or two tasks of one event loop), each
\* with at most one request() call at a time, on either client.
Callers == {"t1", "t2"}

\* The arguments of request(); BaseArgs is a call with every default.
BaseArgs ==
    [method |-> "GET", path |-> "/status", query |-> "", data |-> None,
     request_id |-> "", headers |-> None, allow_redirects |-> TRUE,
     timeout |-> None]

\* A call with every argument given.
FullArgs ==
    [method |-> "POST", path |-> "/items", query |-> "a=1",
     data |-> Some("{\"name\":\"x\"}"), request_id |-> "r1",
     headers |-> Some(CustomHeaders), allow_redirects |-> FALSE,
     timeout |-> Some(5)]

\* The calls the model issues.
ArgChoices ==
    {BaseArgs, FullArgs,
     [BaseArgs EXCEPT !.headers = Some(EmptyMapping)],
     [FullArgs EXCEPT !.headers = None]}

\* What the transport can answer, and how it can fail.
Replies ==
    {[status |-> 200, content |-> "{\"ok\":true}", headers |-> "h200",
      cookies |-> "c200"],
     [status |-> 404, content |-> "", headers |-> "h404", cookies |-> "c404"]}

TransportErrors == {"ConnectionError", "Timeout"}

---------------------------------------------------------------------------
(* HttpClient *)

\* __init__: headers or {...}: None and the empty mapping give the default.
InitHeaders(given) ==
    IF given # None /\ given[1] # EmptyMapping THEN given[1] ELSE DefaultHeaders

\* ":".join((self.host, str(self.port)))
Netloc(h, p) == <<h, ":", p>>

\* urlunparse((scheme, netloc, path, "", query, ""))
UrlUnparse(s, netloc, path, query) ==
    <<s, "://">> \o netloc \o <<path>>
        \o (IF query # "" THEN <<"?", query>> ELSE <<>>)

\* f" [{request_id}]" if request_id else ""
RequestTag(request_id) ==
    IF request_id # "" THEN <<" [", request_id, "]">> ELSE <<>>

\* data if data is not None else ""
DataText(data) == IF data # None THEN data[1] ELSE ""

OutboundLine(tag, method, url, data) ==
    [dir |-> "--->", tag |-> tag, method |-> method, url |-> url,
     text |-> DataText(data)]

InboundLine(tag, method, url, code, data) ==
    [dir |-> "<---", tag |-> tag, method |-> method, url |-> url,
     code |-> code, data |-> data]

TransportRequest(method, url, data, hdrs, allow_redirects, timeout) ==
    [method |-> method, url |-> url, data |-> data, headers |-> hdrs,
     allow_redirects |-> allow_redirects, timeout |-> timeout]

IdleCall ==
    [pc |-> "idle", kind |-> "none", args |-> BaseArgs, url |-> <<>>, tag |-> <<>>,
     hdrs |-> None, sid |-> 0, conn |-> 0, sends |-> 0, reply |-> None,
     failure |-> None, outcome |-> None, events |-> <<>>,
     issuedCfg |-> None, selectCfg |-> None]

SessionIds == 1 .. MaxCalls

UnusedSession == [state |-> "unused", conn |-> 0, reply |-> None]

Return(v) == [kind |-> "return", value |-> v]
Raise(e) == [kind |-> "raise", value |-> e]

\* @headers.setter
SetHeaders(cl, m) ==
    /\ nSets < MaxSets
    /\ headers' = [headers EXCEPT ![cl] = m]
    /\ nSets' = nSets + 1
    /\ UNCHANGED <<mqVars, modelVars, host, port, scheme, call, sessions, nCalls>>

---------------------------------------------------------------------------
(* SyncHttpClient.request *)

\* A faulty variant: the caller's headers are merged over the client's.
MergedHeaders(given, current) ==
    IF given # None THEN given[1] @@ current ELSE current

\* headers if headers is not None else self.headers
SyncSelectHeaders(given, current) == IF given # None THEN given[1] ELSE current

SyncUrl(a) ==
    UrlUnparse(scheme["sync"], Netloc(host["sync"], port["sync"]), a.path, a.query)

SyncTag(a) == RequestTag(a.request_id)

\* A faulty variant: a failed send is swallowed and an empty response
\* returned.
SwallowedFailure(e) == Return(<<0, "", "", "">>)

\* No handler surrounds requests.request: what it raises leaves request().
SyncFailure(e) == Raise(e)

\* return code, data, ret_headers, cookies
SyncResult(r) == Return(<<r.status, r.content, r.headers, r.cookies>>)

\* The caller enters request(): url, tag and the outbound line.
SyncCall(c, a) ==
    /\ call[c].pc = "idle"
    /\ nCalls < MaxCalls
    /\ nCalls' = nCalls + 1
    /\ call' = [call EXCEPT ![c] =
                  [IdleCall EXCEPT
                     !.pc = "sending", !.kind = "sync", !.args = a,
                     !.url = SyncUrl(a), !.tag = SyncTag(a),
                     !.issuedCfg = Some(headers["sync"]),
                     !.events = <<[ev |-> "log",
                                   line |-> OutboundLine(SyncTag(a), a.method,
                                                         SyncUrl(a), a.data)]>>]]
    /\ UNCHANGED <<mqVars, modelVars, host, port, scheme, headers, sessions,
                   nSets>>

\* The frame after the header selection and the call of requests.request.
SyncSent(f) ==
    LET h == SyncSelectHeaders(f.args.headers, headers["sync"])
    IN  [f EXCEPT
           !.hdrs = Some(h), !.selectCfg = Some(headers["sync"]),
           !.sends = f.sends + 1,
           !.events = Append(f.events,
               [ev |-> "send",
                req |-> TransportRequest(f.args.method, f.url, f.args.data, h,
                                         f.args.allow_redirects,
                                         f.args.timeout)])]

\* requests.request returns a response.
SyncSendOk(c, r) ==
    /\ call[c].kind = "sync"
    /\ call[c].pc = "sending"
    /\ call' = [call EXCEPT ![c] =
                  [SyncSent(call[c]) EXCEPT !.pc = "received",
                                            !.reply = Some(r)]]
    /\ UNCHANGED <<mqVars, modelVars, host, port, scheme, headers, sessions,
                   nCalls, nSets>>

\* requests.request raises.
SyncSendFail(c, e) ==
    /\ call[c].kind = "sync"
    /\ call[c].pc = "sending"
    /\ call' = [call EXCEPT ![c] =
                  [SyncSent(call[c]) EXCEPT !.pc = "done",
                                            !.failure = Some(e),
                                            !.outcome = Some(SyncFailure(e))]]
    /\ UNCHANGED <<mqVars, modelVars, host, port, scheme, headers, sessions,
                   nCalls, nSets>>

\* The inbound line and the return.
SyncReturn(c) ==
    /\ call[c].kind = "sync"
    /\ call[c].pc = "received"
    /\ LET f == call[c]
           r == f.reply[1]
       IN  call' = [call EXCEPT ![c] =
             [f EXCEPT
                !.pc = "done",
                !.outcome = Some(SyncResult(r)),
                !.events = f.events \o
                   <<[ev |-> "log",
                      line |-> InboundLine(f.tag, f.args.method, f.url,
                                           r.status, r.content)],
                     [ev |-> "return"]>>]]
    /\ UNCHANGED <<mqVars, modelVars, host, port, scheme, headers, sessions,
                   nCalls, nSets>>

\* The caller has taken the result; its frame is gone.
Collect(c) ==
    /\ call[c].pc = "done"
    /\ call' = [call EXCEPT ![c] = IdleCall]
    /\ UNCHANGED <<mqVars, modelVars, host, port, scheme, headers, sessions,
                   nCalls, nSets>>

---------------------------------------------------------------------------
(* AsyncHttpClient.request *)

\* A faulty variant: a call that omits headers gets the constructor's default
\* mapping, not the client's current one.
StaleHeaders(given, current) ==
    IF given # None THEN given[1] ELSE InitHeaders(None)

\* headers if headers is not None else self.headers
AsyncSelectHeaders(given, current) == IF given # None THEN given[1] ELSE current

AsyncUrl(a) ==
    UrlUnparse(scheme["async"], Netloc(host["async"], port["async"]), a.path,
               a.query)

\* A faulty variant: the brackets are written for an empty id as well.
AlwaysBracketed(a) == <<" [", a.request_id, "]">>

AsyncTag(a) == RequestTag(a.request_id)

\* No handler surrounds the awaits: what is raised leaves request().
AsyncFailure(e) == Raise(e)

\* A faulty variant: the non-blocking client returns the response headers as
\* well.
WithHeaders(r) == Return(<<r.status, r.content, r.headers>>)

\* return code, data
AsyncResult(r) == Return(<<r.status, r.content>>)

\* A faulty variant: one session kept on the client and used by every call.
SharedSessionId(ss) == 1

\* aiohttp.ClientSession(connector=connector): a new object, here the first
\* id not yet used.
NewSessionId(ss) ==
    CHOOSE i \in SessionIds :
        /\ ss[i].state = "unused"
        /\ \A j \in SessionIds : j < i => ss[j].state # "unused"

\* aiohttp.TCPConnector(ssl=False): a new object for the new session.
NewConnectorId(ss) == NewSessionId(ss)

\* Leaving "async with aiohttp.ClientSession(...)": the session is closed.
CloseSession(ss, sid) ==
    [ss EXCEPT ![sid].state = "closed", ![sid].reply = None]

\* request(...) is called: a coroutine object; nothing of the body has run.
AsyncCall(c, a) ==
    /\ call[c].pc = "idle"
    /\ nCalls < MaxCalls
    /\ nCalls' = nCalls + 1
    /\ call' = [call EXCEPT ![c] =
                  [IdleCall EXCEPT !.pc = "created", !.kind = "async",
                                   !.args = a,
                                   !.issuedCfg = Some(headers["async"])]]
    /\ UNCHANGED <<mqVars, modelVars, host, port, scheme, headers, sessions,
                   nSets>>

\* The coroutine first runs, up to its first suspend point: url, tag, header
\* selection, outbound line, connector, session, session.request.
AsyncStart(c) ==
    /\ call[c].pc = "created"
    /\ LET f == call[c]
           a == f.args
           h == AsyncSelectHeaders(a.headers, headers["async"])
           sid == NewSessionId(sessions)
           conn == NewConnectorId(sessions)
       IN  /\ call' = [call EXCEPT ![c] =
                 [f EXCEPT
                    !.pc = "awaiting", !.url = AsyncUrl(a), !.tag = AsyncTag(a),
                    !.hdrs = Some(h), !.selectCfg = Some(headers["async"]),
                    !.sid = sid, !.conn = conn, !.sends = f.sends + 1,
                    !.events =
                       <<[ev |-> "log",
                          line |-> OutboundLine(AsyncTag(a), a.method,
                                                AsyncUrl(a), a.data)],
                         [ev |-> "send",
                          req |-> TransportRequest(a.method, AsyncUrl(a), a.data,
                                                   h, a.allow_redirects,
                                                   a.timeout)]>>]]
           /\ sessions' = [sessions EXCEPT ![sid] =
                 [state |-> "open", conn |-> conn, reply |-> None]]
    /\ UNCHANGED <<mqVars, modelVars, host, port, scheme, headers, nCalls, nSets>>

\* The transport answers the request sent on the call's session; the call
\* resumes with the response and suspends again in response.read().
AsyncResponse(c, r) ==
    /\ call[c].pc = "awaiting"
    /\ LET sid == call[c].sid
       IN  sessions' = [sessions EXCEPT ![sid].reply =
                           Some([for |-> sid, reply |-> r])]
    /\ call' = [call EXCEPT ![c].pc = "reading"]
    /\ UNCHANGED <<mqVars, modelVars, host, port, scheme, headers, nCalls, nSets>>

\* The body is read: inbound line, return, and both "async with" are left.
AsyncRead(c) ==
    /\ call[c].pc = "reading"
    /\ LET f == call[c]
           got == sessions[f.sid].reply[1]
           r == got.reply
       IN  call' = [call EXCEPT ![c] =
             [f EXCEPT
                !.pc = "done", !.reply = Some(got),
                !.outcome = Some(AsyncResult(r)),
                !.events = f.events \o
                   <<[ev |-> "log",
                      line |-> InboundLine(f.tag, f.args.method, f.url,
                                           r.status, r.content)],
                     [ev |-> "return"]>>]]
    /\ sessions' = CloseSession(sessions, call[c].sid)
    /\ UNCHANGED <<mqVars, modelVars, host, port, scheme, headers, nCalls, nSets>>

\* session.request or response.read raises (connection, DNS, timeout).
AsyncFail(c, e) ==
    /\ call[c].pc \in {"awaiting", "reading"}
    /\ call' = [call EXCEPT ![c] =
                  [call[c] EXCEPT !.pc = "done", !.failure = Some(e),
                                  !.outcome = Some(AsyncFailure(e))]]
    /\ sessions' = CloseSession(sessions, call[c].sid)
    /\ UNCHANGED <<mqVars, modelVars, host, port, scheme, headers, nCalls, nSets>>

\* The task is cancelled while suspended: CancelledError is raised at the
\* await and leaves through both "async with".
AsyncCancel(c) ==
    /\ call[c].pc \in {"awaiting", "reading"}
    /\ call' = [call EXCEPT ![c] =
                  [call[c] EXCEPT !.pc = "done",
                                  !.outcome = Some(Raise("CancelledError"))]]
    /\ sessions' = CloseSession(sessions, call[c].sid)
    /\ UNCHANGED <<mqVars, modelVars, host, port, scheme, headers, nCalls, nSets>>

---------------------------------------------------------------------------
(* RabbitMQClient *)

QueueNames == {"jobs", "events"}

ChannelIds == 1 .. MaxOps

\* A message that is neither str nor bytes, which basic_publish rejects.
NotText == "<int 5>"

\* The arguments of publish(); an argument the caller omits is None.  The
\* calls the model makes: every default, every argument given, one between,
\* and one with a message basic_publish rejects.
PublishArgs ==
    {[queue |-> "jobs", message |-> None, content_type |-> None,
      delivery_mode |-> None],
     [queue |-> "jobs", message |-> Some("m1"),
      content_type |-> Some("text/plain"), delivery_mode |-> Some("Transient")],
     [queue |-> "events", message |-> Some("m2"), content_type |-> None,
      delivery_mode |-> Some("Persistent")],
     [queue |-> "jobs", message |-> Some(NotText), content_type |-> None,
      delivery_mode |-> None]}

\* What basic_publish can raise, and the state it leaves the channel in: a
\* rejected message leaves it open, an error of the broker closes it.
PublishErrors ==
    {[error |-> "TypeError", channel |-> "open"],
     [error |-> "ChannelClosedByBroker", channel |-> "closed"]}

\* pika.DeliveryMode: Transient = 1, Persistent = 2.
DeliveryModeValue(mode) == IF mode = "Transient" THEN 1 ELSE 2

\* The defaults of publish().
DefaultMessage == ""
DefaultContentType == "application/octect-stream"
DefaultDeliveryMode == "Persistent"

OrDefault(given, default) == IF given # None THEN given[1] ELSE default

\* BasicProperties(content_type=content_type, delivery_mode=delivery_mode.value)
Properties(a) ==
    [content_type |-> OrDefault(a.content_type, DefaultContentType),
     delivery_mode |->
         DeliveryModeValue(OrDefault(a.delivery_mode, DefaultDeliveryMode))]

\* basic_publish(exchange="", routing_key=queue, body=message, properties=...)
Published(a) ==
    [routing_key |-> a.queue, body |-> OrDefault(a.message, DefaultMessage),
     properties |-> Properties(a)]

\* channel.basic_get(queue): the first message ready, or three None.
BasicGet(qs, q) ==
    IF qs[q] = <<>> THEN <<None, None, None>>
    ELSE <<Some("GetOk"), Some(qs[q][1].properties), Some(qs[q][1].body)>>

\* A faulty variant: get hands back the body alone.
BodyOnly(t) == t[3]

\* return channel.basic_get(queue)
GetResult(t) == t

\* raise AMQPChannelError("Channel is closed")
ChannelClosed == Raise("AMQPChannelError")

IsOpen(ch) == channels[ch].state = "open"

NoCall ==
    [op |-> "none", pc |-> "idle", args |-> <<>>, chan |-> 0, sawOpen |-> None,
     ready |-> 0, transport |-> 0, got |-> None, outcome |-> None]

\* The first channel number the connection has not used.
NewChannelId == Len(channels) + 1

\* channel(): self._rabbitmq.channel(), called by a user of the client to
\* have a channel for get().
Channel ==
    /\ mq.pc = "idle"
    /\ rabbitmq = "open"
    /\ NewChannelId \in ChannelIds
    /\ channels' = Append(channels,
                          [state |-> "open", by |-> "caller", used |-> 0])
    /\ UNCHANGED <<httpVars, modelVars, rabbitmq, queues, mq, nOps>>

\* The broker (or the network) closes a channel at a time of its own.
ChannelCloses(ch) ==
    /\ ch \in DOMAIN channels
    /\ IsOpen(ch)
    /\ channels' = [channels EXCEPT ![ch].state = "closed"]
    /\ UNCHANGED <<httpVars, modelVars, rabbitmq, queues, mq, nOps>>

\* get(channel, queue)
Get(ch, q) ==
    /\ mq.pc = "idle"
    /\ nOps < MaxOps
    /\ ch \in DOMAIN channels
    /\ nOps' = nOps + 1
    /\ IF ~IsOpen(ch)
       THEN /\ mq' = [NoCall EXCEPT !.op = "get", !.pc = "done",
                                    !.args = [queue |-> q], !.chan = ch,
                                    !.ready = Len(queues[q]),
                                    !.sawOpen = Some(FALSE),
                                    !.outcome = Some(ChannelClosed)]
            /\ UNCHANGED <<queues, channels>>
       ELSE LET t == BasicGet(queues, q)
            IN  /\ mq' = [NoCall EXCEPT !.op = "get", !.pc = "done",
                                        !.args = [queue |-> q], !.chan = ch,
                                        !.ready = Len(queues[q]),
                                        !.sawOpen = Some(TRUE),
                                        !.transport = 1, !.got = Some(t),
                                        !.outcome = Some(Return(GetResult(t)))]
                /\ queues' = [queues EXCEPT ![q] =
                                 IF @ = <<>> THEN @ ELSE Tail(@)]
                /\ channels' = [channels EXCEPT ![ch].used = @ + 1]
    /\ UNCHANGED <<httpVars, modelVars, rabbitmq>>

\* publish(...) is entered.
PublishCall(a) ==
    /\ mq.pc = "idle"
    /\ nOps < MaxOps
    /\ nOps' = nOps + 1
    /\ mq' = [NoCall EXCEPT !.op = "publish", !.pc = "channel", !.args = a,
                            !.ready = Len(queues[a.queue])]
    /\ UNCHANGED <<httpVars, modelVars, rabbitmq, channels, queues>>

\* channel = self.channel(): a new channel of the connection.
PublishChannel ==
    /\ mq.pc = "channel"
    /\ rabbitmq = "open"
    /\ channels' = Append(channels,
                          [state |-> "open", by |-> "publish", used |-> 0])
    /\ mq' = [mq EXCEPT !.pc = "check", !.chan = NewChannelId]
    /\ UNCHANGED <<httpVars, modelVars, rabbitmq, queues, nOps>>

\* channel = self.channel() raises: the connection is closed or deleted.
PublishNoChannel ==
    /\ mq.pc = "channel"
    /\ rabbitmq # "open"
    /\ mq' = [mq EXCEPT !.pc = "done",
                        !.outcome = Some(Raise(IF rabbitmq = "deleted"
                                               THEN "AttributeError"
                                               ELSE "ConnectionWrongStateError"))]
    /\ UNCHANGED <<httpVars, modelVars, rabbitmq, channels, queues, nOps>>

\* channel.is_open holds and basic_publish returns.
PublishSend ==
    /\ mq.pc = "check"
    /\ IsOpen(mq.chan)
    /\ mq.args.message # Some(NotText)
    /\ queues' = [queues EXCEPT ![mq.args.queue] = Append(@, Published(mq.args))]
    /\ channels' = [channels EXCEPT ![mq.chan].used = @ + 1]
    /\ mq' = [mq EXCEPT !.pc = "close", !.sawOpen = Some(TRUE), !.transport = 1,
                        !.got = Some(Published(mq.args))]
    /\ UNCHANGED <<httpVars, modelVars, rabbitmq, nOps>>

\* channel.is_open holds and basic_publish raises: publish() is left at once.
PublishSendFail(e) ==
    /\ mq.pc = "check"
    /\ IsOpen(mq.chan)
    /\ (e.error = "TypeError") <=> (mq.args.message = Some(NotText))
    /\ channels' = [channels EXCEPT ![mq.chan].state = e.channel,
                                    ![mq.chan].used = @ + 1]
    /\ mq' = [mq EXCEPT !.pc = "done", !.sawOpen = Some(TRUE), !.transport = 1,
                        !.outcome = Some(Raise(e.error))]
    /\ UNCHANGED <<httpVars, modelVars, rabbitmq, queues, nOps>>

\* channel.is_open does not hold: raise AMQPChannelError.
PublishClosed ==
    /\ mq.pc = "check"
    /\ ~IsOpen(mq.chan)
    /\ mq' = [mq EXCEPT !.pc = "done", !.sawOpen = Some(FALSE),
                        !.outcome = Some(ChannelClosed)]
    /\ UNCHANGED <<httpVars, modelVars, rabbitmq, channels, queues, nOps>>

\* channel.close(), which raises on a channel that is no longer open.
PublishClose ==
    /\ mq.pc = "close"
    /\ channels' = [channels EXCEPT ![mq.chan].state = "closed"]
    /\ mq' = [mq EXCEPT !.pc = "done",
                        !.outcome = IF IsOpen(mq.chan) THEN Some(Return(None))
                                    ELSE Some(Raise("ChannelWrongStateError"))]
    /\ UNCHANGED <<httpVars, modelVars, rabbitmq, queues, nOps>>

\* The caller has the outcome of the call.
MqCollect ==
    /\ mq.pc = "done"
    /\ mq' = NoCall
    /\ UNCHANGED <<httpVars, modelVars, rabbitmq, channels, queues, nOps>>

\* close(): the connection is closed, its channels with it, and the
\* attribute deleted.
Close ==
    /\ mq.pc = "idle"
    /\ rabbitmq = "open"
    /\ nOps < MaxOps
    /\ nOps' = nOps + 1
    /\ rabbitmq' = "deleted"
    /\ channels' = [ch \in DOMAIN channels |->
                       [channels[ch] EXCEPT !.state = "closed"]]
    /\ UNCHANGED <<httpVars, modelVars, queues, mq>>

\* connect(): a new connection; the channels of the old one stay closed.
Connect ==
    /\ mq.pc = "idle"
    /\ rabbitmq = "deleted"
    /\ rabbitmq' = "open"
    /\ UNCHANGED <<httpVars, modelVars, channels, queues, mq, nOps>>

\* RabbitMQClient.__init__: connected, no channel yet; the queues are empty.
MqInit ==
    /\ rabbitmq = "open"
    /\ channels = <<>>
    /\ queues = [q \in QueueNames |-> <<>>]
    /\ mq = NoCall
    /\ nOps = 0

MqNext ==
    \/ Channel
    \/ \E ch \in ChannelIds : ChannelCloses(ch)
    \/ \E ch \in ChannelIds, q \in QueueNames : Get(ch, q)
    \/ \E a \in PublishArgs : PublishCall(a)
    \/ PublishChannel
    \/ PublishNoChannel
    \/ PublishSend
    \/ \E e \in PublishErrors : PublishSendFail(e)
    \/ PublishClosed
    \/ PublishClose
    \/ MqCollect
    \/ Close
    \/ Connect

---------------------------------------------------------------------------
(* Model.to_dict *)

\* Python values, each with its type t.  A string, an integer, a UUID and a
\* Decimal carry the text str() gives for them; an enumeration member carries
\* its underlying value; a list carries its items and a dict its (key, value)
\* pairs in insertion order.
PyStr(x) == [t |-> "str", s |-> x]
PyInt(x) == [t |-> "int", s |-> x]
PyUuid(x) == [t |-> "uuid", s |-> x]
PyDecimal(x) == [t |-> "decimal", s |-> x]
EnumMember(x) == [t |-> "enum", value |-> x]
PyList(xs) == [t |-> "list", items |-> xs]
PyDict(ps) == [t |-> "dict", pairs |-> ps]

Scalars ==
    {PyStr("x"), PyInt("7"), PyUuid("12345678-1234-5678-1234-567812345678"),
     PyDecimal("1.50")}

\* Members of enumerations over strings, integers and decimals.
EnumMembers ==
    {EnumMember(PyStr("red")), EnumMember(PyInt("3")),
     EnumMember(PyDecimal("0.20"))}

\* The values that can be the key of a dict.
Keys == Scalars \cup EnumMembers

RECURSIVE ValuesOfSize(_), SeqsOfWeight(_), PairSeqsOfWeight(_)

\* The values made of exactly n objects.
ValuesOfSize(n) ==
    IF n = 1 THEN Keys \cup {PyList(<<>>), PyDict(<<>>)}
    ELSE {PyList(xs) : xs \in SeqsOfWeight(n - 1)}
           \cup {PyDict(ps) : ps \in PairSeqsOfWeight(n - 1)}

\* The non-empty sequences of values made of w objects in all.
SeqsOfWeight(w) ==
    UNION {{<<x>> \o r : x \in ValuesOfSize(k),
                         r \in IF k = w THEN {<<>>} ELSE SeqsOfWeight(w - k)}
           : k \in 1 .. w}

\* The non-empty sequences of (key, value) pairs, keys distinct, made of w
\* objects in all.
PairSeqsOfWeight(w) ==
    UNION {UNION {{<<<<key, val>>>> \o r :
                     val \in ValuesOfSize(k - 1),
                     r \in {q \in (IF k = w THEN {<<>>}
                                   ELSE PairSeqsOfWeight(w - k)) :
                              \A i \in DOMAIN q : q[i][1] # key}}
                  : key \in Keys}
           : k \in 2 .. w}

Values == UNION {ValuesOfSize(n) : n \in 1 .. MaxNodes}

\* A dict display {k: v for ...}: a key met again keeps its place and takes the
\* new value.
DictInsert(ps, key, val) ==
    IF \E i \in DOMAIN ps : ps[i][1] = key
    THEN [i \in DOMAIN ps |-> IF ps[i][1] = key THEN <<key, val>> ELSE ps[i]]
    ELSE Append(ps, <<key, val>>)

RECURSIVE MakeDict(_)
MakeDict(ps) ==
    IF ps = <<>> THEN <<>>
    ELSE LET n == Len(ps)
         IN  DictInsert(MakeDict(SubSeq(ps, 1, n - 1)), ps[n][1], ps[n][2])

RECURSIVE _asdict(_)
_asdict(o) ==
    CASE o.t = "dict" ->
           PyDict(MakeDict([i \in DOMAIN o.pairs |->
                              <<_asdict(o.pairs[i][1]), _asdict(o.pairs[i][2])>>]))
      [] o.t = "list" -> PyList([i \in DOMAIN o.items |-> _asdict(o.items[i])])
      [] o.t = "enum" -> o.value
      [] o.t = "uuid" -> PyStr(o.s)
      [] o.t = "decimal" -> PyStr(o.s)
      [] OTHER -> o

\* to_dict: dct = super().to_dict(encode_json=encode_json); return _asdict(dct)
to_dict ==
    /\ result = None
    /\ result' = Some(_asdict(obj))
    /\ UNCHANGED <<httpVars, mqVars, obj>>

\* A Model with one field; super().to_dict() gave the mapping obj.
ModelInit ==
    /\ \E val \in Values : obj = PyDict(<<<<PyStr("field"), val>>>>)
    /\ result = None

ModelNext == to_dict

---------------------------------------------------------------------------
(* Specifications *)

\* Both clients built by HttpClient.__init__ with the same arguments; no call
\* made yet.
HttpInit ==
    /\ host = [cl \in Clients |-> "example.org"]
    /\ port = [cl \in Clients |-> 8080]
    /\ scheme = [cl \in Clients |-> "http"]
    /\ headers = [cl \in Clients |-> InitHeaders(None)]
    /\ call = [c \in Callers |-> IdleCall]
    /\ sessions = [i \in SessionIds |-> UnusedSession]
    /\ nCalls = 0
    /\ nSets = 0

\* No Model is being serialised.
ModelQuiet ==
    /\ obj = <<>>
    /\ result = <<>>


HttpNext ==
    \/ \E cl \in Clients, m \in HeaderMappings : SetHeaders(cl, m)
    \/ \E c \in Callers, a \in ArgChoices : AsyncCall(c, a)
    \/ \E c \in Callers : AsyncStart(c)
    \/ \E c \in Callers, r \in Replies : AsyncResponse(c, r)
    \/ \E c \in Callers : AsyncRead(c)
    \/ \E c \in Callers, e \in TransportErrors : AsyncFail(c, e)
    \/ \E c \in Callers : AsyncCancel(c)
    \/ \E c \in Callers, a \in ArgChoices : SyncCall(c, a)
    \/ \E c \in Callers, r \in Replies : SyncSendOk(c, r)
    \/ \E c \in Callers, e \in TransportErrors : SyncSendFail(c, e)
    \/ \E c \in Callers : SyncReturn(c)
    \/ \E c \in Callers : Collect(c)

\* Everything constructed, nothing called, no Model being serialised.
Init == HttpInit /\ MqInit /\ ModelQuiet

\* The same with a Model to serialise.
InitWithModel == HttpInit /\ MqInit /\ ModelInit

SpecHttp == Init /\ [][HttpNext]_vars

SpecMq == Init /\ [][MqNext]_vars

SpecModel == InitWithModel /\ [][ModelNext]_vars

---------------------------------------------------------------------------
(* Properties of the HTTP clients *)

HasSent(f) == f.sends > 0

\* The request a call handed to the transport.
Sent(f) == f.events[2].req

Returned(f) == f.outcome # None /\ f.outcome[1].kind = "return"

InFlight(f) == f.pc \in {"awaiting", "reading"}

\* C1: the headers handed to the transport are exactly the caller's mapping
\* when one was given, the empty mapping included, with nothing of the
\* client's mapping merged in; and exactly the client's mapping, as it is when
\* the call selects its headers, when the caller gave none.
C1_HeadersAllOrNothing ==
    \A c \in Callers :
        LET f == call[c]
        IN  HasSent(f) =>
              Sent(f).headers =
                 IF f.args.headers # None THEN f.args.headers[1]
                 ELSE f.selectCfg[1]

\* A blocking call sent the caller's empty mapping while the client's mapping
\* was not empty, and a non-blocking call that gave none sent a mapping the
\* setter had installed.
C1_Witness ==
    \E c, d \in Callers :
        /\ call[c].kind = "sync" /\ HasSent(call[c])
        /\ call[c].args.headers = Some(EmptyMapping)
        /\ call[c].selectCfg # Some(EmptyMapping)
        /\ Sent(call[c]).headers = EmptyMapping
        /\ call[d].kind = "async" /\ HasSent(call[d])
        /\ call[d].args.headers = None
        /\ Sent(call[d]).headers = OtherHeaders

\* C4: a call sends once and never again; a call that ended has sent exactly
\* once; and when the send failed, the call raised that very failure, returned
\* nothing, and logged no inbound line.
C4_FailurePropagates ==
    \A c \in Callers :
        LET f == call[c]
        IN  /\ f.sends <= 1
            /\ f.pc \in {"received", "awaiting", "reading", "done"} => f.sends = 1
            /\ f.failure # None =>
                  /\ f.pc = "done"
                  /\ f.outcome = Some(Raise(f.failure[1]))
                  /\ Len(f.events) = 2
            /\ Returned(f) => f.failure = None /\ f.reply # None

\* A blocking call ended in a connection failure and a non-blocking call in a
\* timeout.
C4_Witness ==
    \E c, d \in Callers :
        /\ call[c].kind = "sync" /\ call[c].pc = "done"
        /\ call[c].outcome = Some(Raise("ConnectionError"))
        /\ call[d].kind = "async" /\ call[d].pc = "done"
        /\ call[d].outcome = Some(Raise("Timeout"))

\* The tag both lines of a call must carry.
ExpectedTag(id) == IF id = "" THEN <<>> ELSE <<" [", id, "]">>

\* C5: a call's events are, in this order, the outbound line (tag, method, URL,
\* body or empty text), the send, the inbound line (same tag, method, URL,
\* status, body) and the return; a call that returned has exactly these four,
\* so exactly two lines; a non-blocking call suspended in the send or in the
\* read has its outbound line and no inbound line yet.
C5_LogOrder ==
    \A c \in Callers :
        LET f == call[c]
            a == f.args
            out == [ev |-> "log",
                    line |-> [dir |-> "--->", tag |-> ExpectedTag(a.request_id),
                              method |-> a.method, url |-> f.url,
                              text |-> IF a.data = None THEN "" ELSE a.data[1]]]
        IN  /\ Len(f.events) >= 1 => f.events[1] = out
            /\ Len(f.events) >= 2 => f.events[2].ev = "send"
            /\ HasSent(f) => Len(f.events) >= 2
            /\ InFlight(f) => Len(f.events) = 2
            /\ Len(f.events) \in {0, 1, 2, 4}
            /\ Returned(f) <=> Len(f.events) = 4
            /\ Len(f.events) = 4 =>
                  /\ f.events[3] =
                        [ev |-> "log",
                         line |-> [dir |-> "<---",
                                   tag |-> ExpectedTag(a.request_id),
                                   method |-> a.method, url |-> f.url,
                                   code |-> f.outcome[1].value[1],
                                   data |-> f.outcome[1].value[2]]]
                  /\ f.events[4] = [ev |-> "return"]

\* A non-blocking call with a correlation id and a blocking call without one
\* have both returned.
C5_Witness ==
    \E c, d \in Callers :
        /\ call[c].kind = "async" /\ Returned(call[c])
        /\ call[c].args.request_id = "r1"
        /\ call[c].events[3].line.tag = <<" [", "r1", "]">>
        /\ call[d].kind = "sync" /\ Returned(call[d])
        /\ call[d].args.request_id = ""
        /\ call[d].events[3].line.tag = <<>>

\* The response a call got from the transport.
ReplyOf(f) == IF f.kind = "sync" THEN f.reply[1] ELSE f.reply[1].reply

\* C6: a blocking and a non-blocking call with the same arguments, on clients
\* configured alike, hand the transport the same request (method, URL, body,
\* headers, redirect flag, timeout); given the same response they return the
\* same status and body, the blocking one as a 4-tuple with the response's
\* headers and cookies, the non-blocking one as the pair alone.
C6_SameRequestSameResult ==
    \A c, d \in Callers :
        LET f == call[c]
            g == call[d]
        IN  (/\ f.kind = "sync" /\ g.kind = "async"
             /\ f.args = g.args
             /\ HasSent(f) /\ HasSent(g)
             /\ f.selectCfg = g.selectCfg)
            => /\ Sent(f) = Sent(g)
               /\ (Returned(f) /\ Returned(g) /\ ReplyOf(f) = ReplyOf(g)) =>
                     /\ Len(f.outcome[1].value) = 4
                     /\ g.outcome[1].value =
                           <<f.outcome[1].value[1], f.outcome[1].value[2]>>
                     /\ g.outcome[1].value =
                           <<ReplyOf(g).status, ReplyOf(g).content>>
                     /\ f.outcome[1].value[3] = ReplyOf(f).headers
                     /\ f.outcome[1].value[4] = ReplyOf(f).cookies

\* Both clients returned from the call with every argument given, on the
\* same response.
C6_Witness ==
    \E c, d \in Callers :
        /\ call[c].kind = "sync" /\ call[d].kind = "async"
        /\ call[c].args = FullArgs /\ call[d].args = FullArgs
        /\ Returned(call[c]) /\ Returned(call[d])
        /\ ReplyOf(call[c]) = ReplyOf(call[d])
        /\ ReplyOf(call[c]).status = 200

\* C7: two non-blocking calls never have the same session or connector; a
\* session is open only while the call that made it is suspended in flight,
\* so it is closed once the call has ended (result, transport failure, timeout
\* or cancellation) and none is open when no call is in flight; and the
\* status and body a call returns are those of the response on its own
\* session.
C7_SessionPerCall ==
    /\ \A c, d \in Callers :
          (c # d /\ call[c].sid # 0 /\ call[d].sid # 0) =>
             /\ call[c].sid # call[d].sid
             /\ call[c].conn # call[d].conn
    /\ \A c \in Callers :
          LET f == call[c]
          IN  /\ InFlight(f) => sessions[f.sid].state = "open"
              /\ (f.pc = "done" /\ f.kind = "async") =>
                    sessions[f.sid].state = "closed"
              /\ (f.kind = "async" /\ Returned(f)) =>
                    /\ f.reply[1].for = f.sid
                    /\ f.outcome[1].value =
                          <<f.reply[1].reply.status, f.reply[1].reply.content>>
    /\ \A i \in SessionIds :
          sessions[i].state = "open" =>
             /\ \E c \in Callers : call[c].sid = i /\ InFlight(call[c])
             /\ \A j \in SessionIds :
                   (j # i /\ sessions[j].state # "unused") =>
                      sessions[j].conn # sessions[i].conn

\* One call was cancelled and its session is closed while another call is
\* still reading on its own open session.
C7_Witness ==
    \E c, d \in Callers :
        /\ call[c].outcome = Some(Raise("CancelledError"))
        /\ sessions[call[c].sid].state = "closed"
        /\ call[d].pc = "reading"
        /\ sessions[call[d].sid].state = "open"

\* C8 as stated: a call that gave no headers sends the mapping that was the
\* client's when the caller issued the call, and host and port keep the
\* values given at construction.
C8_SendsMappingOfIssue ==
    /\ \A c \in Callers :
          LET f == call[c]
          IN  (HasSent(f) /\ f.args.headers = None) =>
                 Sent(f).headers = f.issuedCfg[1]
    /\ host = [cl \in Clients |-> "example.org"]
    /\ port = [cl \in Clients |-> 8080]

\* C8 as amended: a call that gave no headers sends the mapping that was the
\* client's when the call selected its headers (in the non-blocking client,
\* when the coroutine first ran), and keeps that mapping whatever is assigned
\* to client.headers while it is in flight; host and port keep the values
\* given at construction.
C8_SendsMappingOfSelection ==
    /\ \A c \in Callers :
          LET f == call[c]
          IN  (HasSent(f) /\ f.args.headers = None) =>
                 /\ f.hdrs = f.selectCfg
                 /\ Sent(f).headers = f.selectCfg[1]
    /\ host = [cl \in Clients |-> "example.org"]
    /\ port = [cl \in Clients |-> 8080]

\* A non-blocking call is suspended in flight with the mapping it selected,
\* and the client's mapping has been replaced since.
C8_Witness ==
    \E c \in Callers :
        /\ call[c].kind = "async" /\ InFlight(call[c])
        /\ call[c].args.headers = None
        /\ call[c].selectCfg = Some(DefaultHeaders)
        /\ headers["async"] = OtherHeaders
        /\ Sent(call[c]).headers = DefaultHeaders

---------------------------------------------------------------------------
(* Properties of RabbitMQClient *)

\* C2: a publish call that has ended has left its channel closed, whatever
\* the way it ended; with no call in progress no channel opened by publish
\* is open; and no such channel served two transport operations.
C2_ChannelClosedOnExit ==
    /\ (mq.op = "publish" /\ mq.pc = "done" /\ mq.chan # 0) =>
          channels[mq.chan].state = "closed"
    /\ mq.pc \in {"idle", "done"} =>
          \A ch \in DOMAIN channels :
             channels[ch].by = "publish" => channels[ch].state = "closed"
    /\ \A ch \in DOMAIN channels :
          channels[ch].by = "publish" => channels[ch].used <= 1

\* C3: a get or publish that found its channel not open raised
\* AMQPChannelError without invoking basic_get or basic_publish, so the
\* queue has what it had; a get that found it open invoked basic_get once and
\* returned its result as it was, three times None when the queue was empty.
C3_ClosedChannelRaises ==
    /\ mq.sawOpen = Some(FALSE) =>
          /\ mq.pc = "done"
          /\ mq.outcome = Some(Raise("AMQPChannelError"))
          /\ mq.transport = 0
          /\ mq.got = None
          /\ Len(queues[mq.args.queue]) = mq.ready
    /\ (mq.op = "get" /\ mq.sawOpen = Some(TRUE)) =>
          /\ mq.transport = 1
          /\ mq.outcome = Some(Return(mq.got[1]))
          /\ mq.ready = 0 =>
                mq.outcome = Some(Return(<<None, None, None>>))
          /\ mq.ready > 0 =>
                /\ mq.outcome[1].value[1] # None
                /\ Len(queues[mq.args.queue]) = mq.ready - 1

\* get was called with a closed channel while a message was ready, and raised.
C3_Witness ==
    /\ mq.op = "get"
    /\ mq.sawOpen = Some(FALSE)
    /\ mq.ready > 0
    /\ mq.outcome = Some(Raise("AMQPChannelError"))

\* C9: a publish that reached basic_publish put exactly one message on the
\* queue named by `queue`, with the body, content type and delivery mode
\* given, and with "application/octet-stream" and persistent delivery where
\* the caller gave none.
C9_PublishDefaults ==
    (mq.op = "publish" /\ mq.pc = "close") =>
       LET a == mq.args
           q == queues[a.queue]
       IN  /\ Len(q) = mq.ready + 1
           /\ q[Len(q)].routing_key = a.queue
           /\ q[Len(q)].body = (IF a.message = None THEN "" ELSE a.message[1])
           /\ q[Len(q)].properties.content_type =
                 (IF a.content_type = None THEN "application/octet-stream"
                  ELSE a.content_type[1])
           /\ q[Len(q)].properties.delivery_mode =
                 (IF a.delivery_mode \in {None, Some("Persistent")} THEN 2 ELSE 1)

---------------------------------------------------------------------------
(* Properties of Model.to_dict *)

RECURSIVE HasTypedObject(_)
\* An enumeration member, a UUID or a Decimal at some depth of the lists and
\* the mappings (keys and values) of a value.
HasTypedObject(o) ==
    \/ o.t \in {"enum", "uuid", "decimal"}
    \/ o.t = "list" /\ \E i \in DOMAIN o.items : HasTypedObject(o.items[i])
    \/ o.t = "dict" /\ \E i \in DOMAIN o.pairs :
                          \/ HasTypedObject(o.pairs[i][1])
                          \/ HasTypedObject(o.pairs[i][2])

\* C10: what to_dict returns holds no enumeration member, UUID or Decimal at
\* any depth of its mappings and lists.
C10_NoTypedObjectLeft == result # None => ~HasTypedObject(result[1])

====
